---- MODULE Spec2Model ----
(***************************************************************************)
(* Model of host/lib/types.cpp: the value types of the driver.             *)
(*                                                                         *)
(*   time_spec_t    whole seconds + fractional seconds, accessors,         *)
(*                  += / -= and the comparison operators                   *)
(*   device_addr_t  "key=value,key=value" parsing and serialisation        *)
(*   mac_addr_t     6-byte address, from_bytes / from_string / to_string   *)
(*   i2c_iface      write_eeprom / read_eeprom over write_i2c / read_i2c   *)
(*                                                                         *)
(* Each type has its own specification (SpecTime, SpecDevAddr, SpecMac,    *)
(* SpecEeprom); the variables of the other types stay at their initial     *)
(* values.  Strings are sequences of one-character strings.                *)
(***************************************************************************)
EXTENDS Integers, Sequences, FiniteSets, TLC

VARIABLES
    ta,         \* time_spec_t under test: [full, frac]
    tb,         \* time_spec_t operand of += / -= and of the comparisons
    t_origin,   \* how ta got its value: [kind, ticks, rate], kind "none" before construction
    t_ticks,    \* last get_tick_count call on ta: [called, rate, value]
    da_pc,      \* device_addr_t: "new" | "built" | "parsed" | "malformed" | "printed" | "reparsed"
    da_args,    \* the args string handed to the constructor / made by to_string
    da_map,     \* the dictionary: sequence of <<key, value>>, keys distinct
    da_src,     \* the dictionary that to_string serialised
    mac_pc,     \* mac_addr_t: "input" | "built" | "failed" | "printed" | "reparsed" | "refailed"
    mac_src,    \* "none" | "bytes" | "string": the factory that was called
    mac_str,    \* the input text
    mac_inb,    \* the input byte vector
    mac_bytes,  \* _bytes of the constructed address
    mac_text,   \* result of to_string
    mac_back,   \* _bytes of from_string(to_string())
    e_pc,       \* EEPROM helper: "idle" | "write" | "sleep" | "setpos" | "read" | "done" | "error"
    e_op,       \* "none" | "write_eeprom" | "read_eeprom"
    e_addr,     \* device address argument
    e_offset,   \* offset argument (uint8)
    e_bytes,    \* write_eeprom: the buffer; read_eeprom: the bytes accumulated so far
    e_n,        \* number of bytes requested
    e_i,        \* loop index
    e_log,      \* transactions issued on the transport, in order
    e_ret       \* value returned to the caller: [set, bytes]

timeVars == <<ta, tb, t_origin, t_ticks>>
devVars  == <<da_pc, da_args, da_map, da_src>>
macVars  == <<mac_pc, mac_src, mac_str, mac_inb, mac_bytes, mac_text, mac_back>>
eepVars  == <<e_pc, e_op, e_addr, e_offset, e_bytes, e_n, e_i, e_log, e_ret>>
vars     == <<timeVars, devVars, macVars, eepVars>>

(***************************************************************************)
(* Initial values of each group.                                           *)
(***************************************************************************)
NoTicks == [called |-> FALSE, rate |-> 0, value |-> 0]

TimeInit ==
    /\ ta = [full |-> 0, frac |-> 0]
    /\ tb = [full |-> 0, frac |-> 0]
    /\ t_origin = [kind |-> "none", ticks |-> 0, rate |-> 0]
    /\ t_ticks = NoTicks

DevInit ==
    /\ da_pc = "new"
    /\ da_args = <<>>
    /\ da_map = <<>>
    /\ da_src = <<>>

MacInit ==
    /\ mac_pc = "input"
    /\ mac_src = "none"
    /\ mac_str = <<>>
    /\ mac_inb = <<>>
    /\ mac_bytes = <<>>
    /\ mac_text = <<>>
    /\ mac_back = <<>>

NoReturn == [set |-> FALSE, bytes |-> <<>>]

EepInit ==
    /\ e_pc = "idle"
    /\ e_op = "none"
    /\ e_addr = 0
    /\ e_offset = 0
    /\ e_bytes = <<>>
    /\ e_n = 0
    /\ e_i = 0
    /\ e_log = <<>>
    /\ e_ret = NoReturn

Init == TimeInit /\ DevInit /\ MacInit /\ EepInit

(***************************************************************************)
(* time_spec_t.  A double is modelled by the integer number of             *)
(* 1/FracDen-second units it holds.  With FracDen a power of two, as it is *)
(* here, and values this small, every double operation the code performs   *)
(* on them (+, -, /, *, fmod, modf) is exact, so the integer arithmetic    *)
(* below is the arithmetic of the code.  time_t is an integer.             *)
(***************************************************************************)
FracDen  == 4
MaxSecs  == 1
MaxFrac  == 6
MaxTicks == 5

FullRange == (-MaxSecs)..MaxSecs
FracRange == (-MaxFrac)..MaxFrac
TickRange == (-MaxTicks)..MaxTicks
\* tick rates (ticks per second) whose quotients are whole numbers of units
TickRates == {r \in 1..FracDen : FracDen % r = 0}

InTimeRange(t) == t.full \in FullRange /\ t.frac \in FracRange

\* integer part of x/d, truncated toward zero: the intpart of std::modf
TruncToZero(x, d) == IF x >= 0 THEN x \div d ELSE -((-x) \div d)

\* std::fmod(x, 1.0) in units: the remainder has the sign of the dividend
Fmod1(x) == x - FracDen * TruncToZero(x, FracDen)

\* boost::math::iround of num/den: nearest integer, halves away from zero
IRound(num, den) ==
    IF num >= 0 THEN (2 * num + den) \div (2 * den)
                ELSE -((2 * (-num) + den) \div (2 * den))

TimeSpecFromSecs(secs) == [full |-> 0, frac |-> secs]

TimeSpecFromPair(full_secs, frac_secs) == [full |-> full_secs, frac |-> frac_secs]

\* the constructor with the division done on the integers (the double() cast lost)
TimeSpecFromTicksIntDiv(full_secs, tick_count, tick_rate) ==
    [full |-> full_secs, frac |-> FracDen * TruncToZero(tick_count, tick_rate)]

TimeSpecFromTicks(full_secs, tick_count, tick_rate) ==
    [full |-> full_secs, frac |-> TruncToZero(tick_count * FracDen, tick_rate)]

get_frac_secs(t) == Fmod1(t.frac)

get_full_secs(t) == t.full + TruncToZero(t.frac, FracDen)

\* in units of 1/FracDen
get_real_secs(t) == t.full * FracDen + t.frac

get_tick_count(t, tick_rate) == IRound(get_frac_secs(t) * tick_rate, FracDen)

\* operator+= : the two statements in order
PlusAssign(lhs, rhs) ==
    LET s1 == [lhs EXCEPT !.full = lhs.full + get_full_secs(rhs)]
    IN  [s1 EXCEPT !.frac = s1.frac + get_frac_secs(rhs)]

\* operator-= : the two statements in order
MinusAssign(lhs, rhs) ==
    LET s1 == [lhs EXCEPT !.full = lhs.full - get_full_secs(rhs)]
    IN  [s1 EXCEPT !.frac = s1.frac - get_frac_secs(rhs)]

OpEq(lhs, rhs) ==
    /\ get_full_secs(lhs) = get_full_secs(rhs)
    /\ get_frac_secs(lhs) = get_frac_secs(rhs)

OpLess(lhs, rhs) ==
    \/ get_full_secs(lhs) < get_full_secs(rhs)
    \/ /\ get_full_secs(lhs) = get_full_secs(rhs)
       /\ get_frac_secs(lhs) < get_frac_secs(rhs)

(* ---- actions of the time_spec_t specification ---- *)

ConstructSecs ==
    /\ t_origin.kind = "none"
    /\ \E secs \in FracRange :
        /\ ta' = TimeSpecFromSecs(secs)
        /\ t_origin' = [kind |-> "secs", ticks |-> 0, rate |-> 0]
        /\ t_ticks' = NoTicks
        /\ UNCHANGED <<tb, devVars, macVars, eepVars>>

ConstructPair ==
    /\ t_origin.kind = "none"
    /\ \E full_secs \in FullRange, frac_secs \in FracRange :
        /\ ta' = TimeSpecFromPair(full_secs, frac_secs)
        /\ t_origin' = [kind |-> "pair", ticks |-> 0, rate |-> 0]
        /\ t_ticks' = NoTicks
        /\ UNCHANGED <<tb, devVars, macVars, eepVars>>

ConstructTicks ==
    /\ t_origin.kind = "none"
    /\ \E full_secs \in FullRange, tick_count \in TickRange, tick_rate \in TickRates :
        /\ InTimeRange(TimeSpecFromTicks(full_secs, tick_count, tick_rate))
        /\ ta' = TimeSpecFromTicks(full_secs, tick_count, tick_rate)
        /\ t_origin' = [kind |-> "ticks", ticks |-> tick_count, rate |-> tick_rate]
        /\ t_ticks' = NoTicks
        /\ UNCHANGED <<tb, devVars, macVars, eepVars>>

\* the right-hand operand, built by the (full, frac) constructor
ConstructOperand ==
    /\ t_origin.kind # "none"
    /\ \E full_secs \in FullRange, frac_secs \in FracRange :
        /\ tb' = TimeSpecFromPair(full_secs, frac_secs)
        /\ UNCHANGED <<ta, t_origin, t_ticks, devVars, macVars, eepVars>>

AddTo ==
    /\ t_origin.kind # "none"
    /\ InTimeRange(PlusAssign(ta, tb))
    /\ ta' = PlusAssign(ta, tb)
    /\ t_origin' = [kind |-> "sum", ticks |-> 0, rate |-> 0]
    /\ t_ticks' = NoTicks
    /\ UNCHANGED <<tb, devVars, macVars, eepVars>>

SubtractFrom ==
    /\ t_origin.kind # "none"
    /\ InTimeRange(MinusAssign(ta, tb))
    /\ ta' = MinusAssign(ta, tb)
    /\ t_origin' = [kind |-> "difference", ticks |-> 0, rate |-> 0]
    /\ t_ticks' = NoTicks
    /\ UNCHANGED <<tb, devVars, macVars, eepVars>>

CallGetTickCount ==
    /\ t_origin.kind # "none"
    /\ \E tick_rate \in TickRates :
        /\ t_ticks' = [called |-> TRUE, rate |-> tick_rate,
                       value |-> get_tick_count(ta, tick_rate)]
        /\ UNCHANGED <<ta, tb, t_origin, devVars, macVars, eepVars>>

TimeNext ==
    \/ ConstructSecs
    \/ ConstructPair
    \/ ConstructTicks
    \/ ConstructOperand
    \/ AddTo
    \/ SubtractFrom
    \/ CallGetTickCount

SpecTime == Init /\ [][TimeNext]_vars

(* ---- properties of time_spec_t, under SpecTime ---- *)

TickCallOnTickBuilt ==
    /\ t_origin.kind = "ticks"
    /\ t_ticks.called
    /\ t_ticks.rate = t_origin.rate

WithinOne(x, y) == x - y \in {-1, 0, 1}

\* C8 (as stated): for every whole, every tick_count >= 0 and every rate > 0,
\* time_spec_t(whole, tick_count, rate).get_tick_count(rate) is tick_count,
\* give or take one tick.
C8_TickCountRoundTrip ==
    (TickCallOnTickBuilt /\ t_origin.ticks >= 0)
        => WithinOne(t_ticks.value, t_origin.ticks)

\* C8 (amended): the same, for the tick counts below one second's worth,
\* 0 <= tick_count < rate.
C8_TickCountRoundTripBelowRate ==
    (TickCallOnTickBuilt /\ t_origin.ticks >= 0 /\ t_origin.ticks < t_origin.rate)
        => WithinOne(t_ticks.value, t_origin.ticks)

C8_Witness ==
    /\ TickCallOnTickBuilt
    /\ t_origin.rate = FracDen
    /\ t_origin.ticks = FracDen - 1
    /\ ta.full # 0
    /\ t_ticks.value = FracDen - 1

\* C9: for every time_spec_t reachable by a constructor followed by any
\* sequence of += and -=, 0 <= get_frac_secs() < 1 and
\* get_full_secs() + get_frac_secs() is the stored whole + fractional value.
C9_AccessorsNormalized ==
    t_origin.kind # "none" =>
        /\ 0 <= get_frac_secs(ta)
        /\ get_frac_secs(ta) < FracDen
        /\ get_full_secs(ta) * FracDen + get_frac_secs(ta) = get_real_secs(ta)

\* C10: a < b exactly when the real value of a is less than that of b,
\* a == b exactly when the real values are equal, and exactly one of
\* a < b, a == b, b < a holds.
C10_ComparisonAgreesWithInstant ==
    t_origin.kind # "none" =>
        /\ OpLess(ta, tb) <=> (get_real_secs(ta) < get_real_secs(tb))
        /\ OpEq(ta, tb) <=> (get_real_secs(ta) = get_real_secs(tb))
        /\ Cardinality({c \in {"lt", "eq", "gt"} :
               \/ c = "lt" /\ OpLess(ta, tb)
               \/ c = "eq" /\ OpEq(ta, tb)
               \/ c = "gt" /\ OpLess(tb, ta)}) = 1

(***************************************************************************)
(* device_addr_t.  A string is a sequence of one-character strings; the    *)
(* dictionary is the sequence of its <<key, value>> entries in iteration   *)
(* order.                                                                  *)
(***************************************************************************)
MaxArgLen  == 5
MaxEntries == 2

arg_delim  == ","
pair_delim == "="

ArgAlphabet == {"a", "b", " ", arg_delim, pair_delim}
ArgStrings  == UNION {[1..n -> ArgAlphabet] : n \in 0..MaxArgLen}

\* keys and values stored with operator[]: empty, plain, with leading or
\* trailing whitespace, and holding a delimiter
TokPool == {<<>>, <<"a">>, <<"b">>, <<" ", "a">>, <<"a", " ">>,
            <<"a", pair_delim>>, <<arg_delim>>}

IsSpace(c) == c \in {" ", "\t", "\n", "\r"}

\* boost::algorithm::trim_copy
trim(in) ==
    LET keep == {i \in 1..Len(in) : ~IsSpace(in[i])}
    IN  IF keep = {} THEN <<>>
        ELSE SubSeq(in, CHOOSE i \in keep : \A j \in keep : i <= j,
                        CHOOSE i \in keep : \A j \in keep : i >= j)

\* the pieces of a non-empty string between the separators, empty pieces kept
RECURSIVE SplitPieces(_, _)
SplitPieces(str, sep) ==
    LET at == {i \in 1..Len(str) : str[i] = sep}
    IN  IF at = {} THEN <<str>>
        ELSE LET i == CHOOSE k \in at : \A j \in at : k <= j
             IN  <<SubSeq(str, 1, i - 1)>>
                     \o SplitPieces(SubSeq(str, i + 1, Len(str)), sep)

\* std::split_string: an empty string is not split and gives no piece
split_string(str, sep) == IF str = <<>> THEN <<>> ELSE SplitPieces(str, sep)

DictKeys(map) == {map[i][1] : i \in 1..Len(map)}

\* dict::operator[] followed by assignment: overwrite in place or append
DictSet(map, key, val) ==
    IF key \in DictKeys(map)
        THEN [i \in 1..Len(map) |-> IF map[i][1] = key THEN <<key, val>> ELSE map[i]]
        ELSE Append(map, <<key, val>>)

\* dict::operator[] read on a key that is present
DictGet(map, key) == map[CHOOSE i \in 1..Len(map) : map[i][1] = key][2]

\* the size test with "fewer than two" in place of "other than two"
PairIsMalformedTooFew(key_val) == Len(key_val) < 2

\* key_val.size() != 2
PairIsMalformed(key_val) == Len(key_val) # 2

PairKey(key_val) == trim(key_val[1])

\* the value taken from the front of the pair instead of the back
PairValueFront(key_val) == trim(key_val[1])

PairValue(key_val) == trim(key_val[Len(key_val)])

\* the loop of the constructor over the remaining pairs; ok = FALSE is the throw
RECURSIVE ParsePairs(_, _)
ParsePairs(pairs, map) ==
    IF pairs = <<>> THEN [ok |-> TRUE, map |-> map]
    ELSE IF trim(Head(pairs)) = <<>> THEN ParsePairs(Tail(pairs), map)
    ELSE LET key_val == split_string(Head(pairs), pair_delim)
         IN  IF PairIsMalformed(key_val) THEN [ok |-> FALSE, map |-> <<>>]
             ELSE ParsePairs(Tail(pairs),
                             DictSet(map, PairKey(key_val), PairValue(key_val)))

DeviceAddrFromString(args) == ParsePairs(split_string(args, arg_delim), <<>>)

RECURSIVE to_string_loop(_)
to_string_loop(map) ==
    IF map = <<>> THEN <<>>
    ELSE LET rest == to_string_loop(SubSeq(map, 1, Len(map) - 1))
             last == map[Len(map)]
         IN  rest \o (IF Len(map) > 1 THEN <<arg_delim>> ELSE <<>>)
                  \o last[1] \o <<pair_delim>> \o DictGet(map, last[1])

to_string(map) == to_string_loop(map)

(* ---- actions of the device_addr_t specification ---- *)

\* device_addr_t(args) on a caller's string
DevAddrConstruct ==
    /\ da_pc = "new"
    /\ \E args \in ArgStrings :
        /\ da_args' = args
        /\ da_map' = DeviceAddrFromString(args).map
        /\ da_pc' = IF DeviceAddrFromString(args).ok THEN "parsed" ELSE "malformed"
        /\ UNCHANGED <<da_src, timeVars, macVars, eepVars>>

\* addr[key] = val on a default-constructed (empty) address
DevAddrSet ==
    /\ da_pc \in {"new", "built"}
    /\ \E key \in TokPool, val \in TokPool :
        /\ Len(DictSet(da_map, key, val)) <= MaxEntries
        /\ da_map' = DictSet(da_map, key, val)
        /\ da_pc' = "built"
        /\ UNCHANGED <<da_args, da_src, timeVars, macVars, eepVars>>

DevAddrToString ==
    /\ da_pc \in {"built", "parsed"}
    /\ da_args' = to_string(da_map)
    /\ da_src' = da_map
    /\ da_pc' = "printed"
    /\ UNCHANGED <<da_map, timeVars, macVars, eepVars>>

\* device_addr_t(addr.to_string())
DevAddrReparse ==
    /\ da_pc = "printed"
    /\ da_map' = DeviceAddrFromString(da_args).map
    /\ da_pc' = IF DeviceAddrFromString(da_args).ok THEN "reparsed" ELSE "remalformed"
    /\ UNCHANGED <<da_args, da_src, timeVars, macVars, eepVars>>

DevNext ==
    \/ DevAddrConstruct
    \/ DevAddrSet
    \/ DevAddrToString
    \/ DevAddrReparse

SpecDevAddr == Init /\ [][DevNext]_vars

(* ---- properties of device_addr_t, under SpecDevAddr ---- *)

\* the comma-delimited segments of a string, as <<p, q>>: the segment lies
\* strictly between positions p and q, which are delimiters or the two ends
SegmentBounds(str) ==
    LET cuts == {0, Len(str) + 1} \cup {i \in 1..Len(str) : str[i] = arg_delim}
    IN  {pq \in cuts \X cuts :
            /\ pq[1] < pq[2]
            /\ ~ \E c \in cuts : pq[1] < c /\ c < pq[2]}

Segment(str, pq) == SubSeq(str, pq[1] + 1, pq[2] - 1)

Blank(str) == \A i \in 1..Len(str) : IsSpace(str[i])

SeparatorCount(str) == Cardinality({i \in 1..Len(str) : str[i] = pair_delim})

RECURSIVE StripLeft(_)
StripLeft(str) ==
    IF str # <<>> /\ IsSpace(Head(str)) THEN StripLeft(Tail(str)) ELSE str

RECURSIVE StripRight(_)
StripRight(str) ==
    IF str # <<>> /\ IsSpace(str[Len(str)])
        THEN StripRight(SubSeq(str, 1, Len(str) - 1)) ELSE str

Strip(str) == StripRight(StripLeft(str))

\* key and value of a segment that holds exactly one separator
SegKey(seg) ==
    Strip(SubSeq(seg, 1, (CHOOSE i \in 1..Len(seg) : seg[i] = pair_delim) - 1))
SegVal(seg) ==
    Strip(SubSeq(seg, (CHOOSE i \in 1..Len(seg) : seg[i] = pair_delim) + 1, Len(seg)))

\* the named segments supply the entries; for a repeated key the last one stands
EntriesFromSegments(map, str) ==
    LET segs == {pq \in SegmentBounds(str) : ~Blank(Segment(str, pq))}
    IN  /\ DictKeys(map) = {SegKey(Segment(str, pq)) : pq \in segs}
        /\ Cardinality(DictKeys(map)) = Len(map)
        /\ \A i \in 1..Len(map) :
             \E pq \in segs :
                /\ SegKey(Segment(str, pq)) = map[i][1]
                /\ SegVal(Segment(str, pq)) = map[i][2]
                /\ \A rs \in segs :
                     SegKey(Segment(str, rs)) = map[i][1] => rs[1] <= pq[1]

\* C4: parsing fails with the malformed-input error if and only if some
\* comma-delimited segment that is not blank does not hold exactly one '=';
\* otherwise blank segments are skipped and every other segment contributes
\* the entry trim(key) -> trim(value).
C4_MalformedIffBadSegment ==
    da_pc \in {"parsed", "malformed"} =>
        /\ da_pc = "malformed" <=>
              \E pq \in SegmentBounds(da_args) :
                 /\ ~Blank(Segment(da_args, pq))
                 /\ SeparatorCount(Segment(da_args, pq)) # 1
        /\ da_pc = "parsed" => EntriesFromSegments(da_map, da_args)

C4_Witness ==
    /\ da_pc = "malformed"
    /\ \E pq \in SegmentBounds(da_args) :
          /\ SeparatorCount(Segment(da_args, pq)) = 2
          /\ Len(Segment(da_args, pq)) = MaxArgLen

NoDelimiters(map) ==
    \A i \in 1..Len(map) : \A j \in {1, 2} : \A k \in 1..Len(map[i][j]) :
        map[i][j][k] \notin {arg_delim, pair_delim}

NoPadding(map) ==
    \A i \in 1..Len(map) : \A j \in {1, 2} : Strip(map[i][j]) = map[i][j]

\* key=value pairs joined by commas, in iteration order
RECURSIVE Joined(_)
Joined(map) ==
    IF map = <<>> THEN <<>>
    ELSE Head(map)[1] \o <<pair_delim>> \o Head(map)[2]
            \o (IF Len(map) > 1 THEN <<arg_delim>> \o Joined(Tail(map)) ELSE <<>>)

SameMapping(m1, m2) ==
    /\ DictKeys(m1) = DictKeys(m2)
    /\ Len(m1) = Len(m2)
    /\ \A i \in 1..Len(m1) : \E j \in 1..Len(m2) : m1[i] = m2[j]

RoundTrips ==
    /\ da_args = Joined(da_src)
    /\ da_pc # "remalformed"
    /\ da_pc = "reparsed" => SameMapping(da_map, da_src)

\* C5 (as stated): for every mapping whose keys and values hold no ',' and no
\* '=', to_string is the key=value pairs joined by commas in iteration order
\* and parsing it yields the same mapping.
C5_RoundTrip ==
    (da_pc \in {"printed", "reparsed", "remalformed"} /\ NoDelimiters(da_src))
        => RoundTrips

\* C5 (amended): the same, for the mappings whose keys and values moreover
\* have no leading or trailing whitespace.
C5_RoundTripTrimmed ==
    (/\ da_pc \in {"printed", "reparsed", "remalformed"}
     /\ NoDelimiters(da_src)
     /\ NoPadding(da_src))
        => RoundTrips

C5_Witness ==
    /\ da_pc = "reparsed"
    /\ Len(da_src) = MaxEntries
    /\ NoDelimiters(da_src)
    /\ NoPadding(da_src)
    /\ \E i \in 1..Len(da_src) : da_src[i][1] # <<>> /\ da_src[i][2] # <<>>
                                    /\ da_src[i][1] # da_src[i][2]
    /\ \E i \in 1..Len(da_src) : da_src[i][2] = <<>>
    /\ da_map = da_src

(***************************************************************************)
(* mac_addr_t.  Bytes are the integers 0..255.  The input texts are made   *)
(* of the pieces of SegPool joined by colons: hexadecimal digits and the   *)
(* letter z, so neither a sign, a 0x prefix nor whitespace, which          *)
(* operator>> would also accept, occurs in them.                           *)
(***************************************************************************)
MaxSegs    == 7
MaxBytesIn == 7

MacLen     == 6
MacTextLen == 17
ByteMod    == 256

BytePool == {0, 10, 171, 255}
SegPool  == {<<"a", "0">>, <<"z", "z">>, <<"b">>, <<"a", "b", "b">>}

\* what an int that was never assigned may hold, as a byte: 0 is also what
\* a failed extraction stores under the newer library rule
GarbageBytes == {0, 204}

HexDigits == <<"0", "1", "2", "3", "4", "5", "6", "7",
               "8", "9", "a", "b", "c", "d", "e", "f">>
UpperHexDigits == <<"0", "1", "2", "3", "4", "5", "6", "7",
                    "8", "9", "A", "B", "C", "D", "E", "F">>

IsHexDigit(c) == \E v \in 1..16 : HexDigits[v] = c \/ UpperHexDigits[v] = c

HexDigitValue(c) ==
    (CHOOSE v \in 1..16 : HexDigits[v] = c \/ UpperHexDigits[v] = c) - 1

RECURSIVE JoinColon(_)
JoinColon(segs) ==
    IF segs = <<>> THEN <<>>
    ELSE IF Len(segs) = 1 THEN Head(segs)
    ELSE Head(segs) \o <<":">> \o JoinColon(Tail(segs))

MacTexts ==
    {JoinColon(segs) : segs \in UNION {[1..n -> SegPool] : n \in 0..MaxSegs}}

MacByteVectors == UNION {[1..n -> BytePool] : n \in 0..MaxBytesIn}

\* the leading hexadecimal digits of a string: what operator>> consumes
RECURSIVE HexPrefix(_)
HexPrefix(str) ==
    IF str # <<>> /\ IsHexDigit(Head(str))
        THEN <<Head(str)>> \o HexPrefix(Tail(str)) ELSE <<>>

RECURSIVE HexValue(_)
HexValue(digits) ==
    IF digits = <<>> THEN 0
    ELSE 16 * HexValue(SubSeq(digits, 1, Len(digits) - 1))
            + HexDigitValue(digits[Len(digits)])

\* iss >> std::hex >> hex_num; boost::uint8_t(hex_num): the bytes that may be
\* pushed.  With no digit to read the extraction fails, nothing tests the
\* stream, and hex_num is pushed as it is.
ParsedByte(hex_str) ==
    IF HexPrefix(hex_str) = <<>> THEN GarbageBytes
    ELSE {HexValue(HexPrefix(hex_str)) % ByteMod}

RECURSIVE ParsedBytes(_)
ParsedBytes(pieces) ==
    IF pieces = <<>> THEN {<<>>}
    ELSE {<<b>> \o rest : b \in ParsedByte(Head(pieces)),
                          rest \in ParsedBytes(Tail(pieces))}

\* UHD_ASSERT_THROW(_bytes.size() == 6)
mac_addr_from_bytes(bytes) ==
    IF Len(bytes) = MacLen THEN [ok |-> TRUE, bytes |-> bytes]
    ELSE [ok |-> FALSE, bytes |-> <<>>]

\* the outcomes of mac_addr_t::from_string
mac_addr_from_string(mac_addr_str) ==
    IF Len(mac_addr_str) # MacTextLen THEN {[ok |-> FALSE, bytes |-> <<>>]}
    ELSE {mac_addr_from_bytes(bytes) :
            bytes \in ParsedBytes(split_string(mac_addr_str, ":"))}

\* "%x": no zero padding
FormatByteNoPad(byte) ==
    IF byte < 16 THEN <<HexDigits[byte + 1]>>
    ELSE <<HexDigits[(byte \div 16) + 1], HexDigits[(byte % 16) + 1]>>

\* "%02x" of a byte
FormatByte(byte) == <<HexDigits[(byte \div 16) + 1], HexDigits[(byte % 16) + 1]>>

RECURSIVE mac_addr_to_string(_)
mac_addr_to_string(bytes) ==
    IF bytes = <<>> THEN <<>>
    ELSE LET addr == mac_addr_to_string(SubSeq(bytes, 1, Len(bytes) - 1))
         IN  addr \o (IF addr = <<>> THEN <<>> ELSE <<":">>)
                  \o FormatByte(bytes[Len(bytes)])

(* ---- actions of the mac_addr_t specification ---- *)

MacFromBytes ==
    /\ mac_pc = "input"
    /\ \E bytes \in MacByteVectors :
        /\ mac_src' = "bytes"
        /\ mac_inb' = bytes
        /\ mac_bytes' = mac_addr_from_bytes(bytes).bytes
        /\ mac_pc' = IF mac_addr_from_bytes(bytes).ok THEN "built" ELSE "failed"
        /\ UNCHANGED <<mac_str, mac_text, mac_back, timeVars, devVars, eepVars>>

MacFromString ==
    /\ mac_pc = "input"
    /\ \E text \in MacTexts :
        \E made \in mac_addr_from_string(text) :
            /\ mac_src' = "string"
            /\ mac_str' = text
            /\ mac_bytes' = made.bytes
            /\ mac_pc' = IF made.ok THEN "built" ELSE "failed"
            /\ UNCHANGED <<mac_inb, mac_text, mac_back, timeVars, devVars, eepVars>>

MacToString ==
    /\ mac_pc = "built"
    /\ mac_text' = mac_addr_to_string(mac_bytes)
    /\ mac_pc' = "printed"
    /\ UNCHANGED <<mac_src, mac_str, mac_inb, mac_bytes, mac_back,
                   timeVars, devVars, eepVars>>

\* mac_addr_t::from_string(addr.to_string())
MacReparse ==
    /\ mac_pc = "printed"
    /\ \E made \in mac_addr_from_string(mac_text) :
        /\ mac_back' = made.bytes
        /\ mac_pc' = IF made.ok THEN "reparsed" ELSE "refailed"
        /\ UNCHANGED <<mac_src, mac_str, mac_inb, mac_bytes, mac_text,
                       timeVars, devVars, eepVars>>

MacNext ==
    \/ MacFromBytes
    \/ MacFromString
    \/ MacToString
    \/ MacReparse

SpecMac == Init /\ [][MacNext]_vars

(* ---- properties of mac_addr_t, under SpecMac ---- *)

\* six groups of two hexadecimal digits, colons between them
SixHexPairs(str, digits) ==
    /\ Len(str) = 3 * MacLen - 1
    /\ \A i \in 1..Len(str) :
          IF i % 3 = 0 THEN str[i] = ":" ELSE str[i] \in digits

AnyCaseDigits == {HexDigits[v] : v \in 1..16} \cup {UpperHexDigits[v] : v \in 1..16}
LowerCaseDigits == {HexDigits[v] : v \in 1..16}

\* C6: from_string fails unless splitting the text on ':' yields exactly 6
\* segments, each a 2-digit hexadecimal byte; no other text produces an
\* address.
C6_FromStringRejectsMalformed ==
    (mac_src = "string" /\ mac_pc \in {"built", "printed", "reparsed", "refailed"})
        => SixHexPairs(mac_str, AnyCaseDigits)

\* C7: every constructed address holds exactly 6 bytes; its to_string() is 17
\* characters, six lowercase zero-padded two-digit groups joined by colons;
\* from_string(m.to_string()) has the bytes of m; and
\* from_string(s).to_string() is s for every text s of that form.
C7_SixBytesAndRoundTrip ==
    /\ mac_pc \in {"built", "printed", "reparsed", "refailed"}
          => Len(mac_bytes) = 6
    /\ mac_pc \in {"printed", "reparsed", "refailed"}
          => /\ Len(mac_text) = 17
             /\ SixHexPairs(mac_text, LowerCaseDigits)
    /\ mac_pc # "refailed"
    /\ mac_pc = "reparsed" => mac_back = mac_bytes
    /\ (/\ mac_pc \in {"printed", "reparsed"}
        /\ mac_src = "string"
        /\ SixHexPairs(mac_str, LowerCaseDigits))
          => mac_text = mac_str

C7_Witness ==
    /\ mac_pc = "reparsed"
    /\ mac_src = "bytes"
    /\ {mac_bytes[i] : i \in 1..Len(mac_bytes)} = BytePool
    /\ mac_back = mac_inb
    /\ Len(mac_text) = MacTextLen

(***************************************************************************)
(* i2c_iface::write_eeprom / read_eeprom.  Each transaction on the         *)
(* transport is one step; write_i2c and read_i2c either complete or throw. *)
(* Nothing in the helpers catches, so a throw ends the call.               *)
(***************************************************************************)
MaxLen == 3

AddrPool   == {80, 81}
DataPool   == {17, 255}
\* the start of the device and the offsets from which MaxLen bytes run past 255
OffsetPool == {0} \cup {ByteMod - k : k \in 1..MaxLen}
Buffers    == UNION {[1..n -> DataPool] : n \in 0..MaxLen}

\* the command with the offset of the first byte in every transaction
WriteCommandFixedOffset(offset, i, byte) == <<offset % ByteMod, byte>>

\* byte_vector_t cmd = list_of(offset+i)(bytes[i]): each element becomes a uint8
WriteCommand(offset, i, byte) == <<(offset + i) % ByteMod, byte>>

PositionCommandFixedOffset(offset, i) == <<offset % ByteMod>>

\* byte_vector_t(1, offset+i)
PositionCommand(offset, i) == <<(offset + i) % ByteMod>>

\* a failed transaction tried again
AfterThrowRetry(pc_now) == pc_now

\* where control goes when write_i2c or read_i2c throws: out of the helper
AfterThrow(pc_now) == "error"

WriteEntry(data, ok) ==
    [kind |-> "write_i2c", addr |-> e_addr, data |-> data,
     count |-> 0, reply |-> <<>>, ok |-> ok]

ReadEntry(count, reply, ok) ==
    [kind |-> "read_i2c", addr |-> e_addr, data |-> <<>>,
     count |-> count, reply |-> reply, ok |-> ok]

(* ---- actions of the EEPROM specification ---- *)

CallWriteEeprom ==
    /\ e_pc = "idle"
    /\ \E addr \in AddrPool, offset \in OffsetPool, bytes \in Buffers :
        /\ e_op' = "write_eeprom"
        /\ e_addr' = addr
        /\ e_offset' = offset
        /\ e_bytes' = bytes
        /\ e_n' = Len(bytes)
        /\ e_i' = 0
        /\ e_pc' = IF 0 < Len(bytes) THEN "write" ELSE "done"
        /\ UNCHANGED <<e_log, e_ret, timeVars, devVars, macVars>>

\* this->write_i2c(addr, cmd) completes
WriteByte ==
    /\ e_pc = "write"
    /\ e_log' = Append(e_log, WriteEntry(WriteCommand(e_offset, e_i, e_bytes[e_i + 1]), TRUE))
    /\ e_pc' = "sleep"
    /\ UNCHANGED <<e_op, e_addr, e_offset, e_bytes, e_n, e_i, e_ret,
                   timeVars, devVars, macVars>>

\* this->write_i2c(addr, cmd) throws
WriteByteThrows ==
    /\ e_pc = "write"
    /\ e_log' = Append(e_log, WriteEntry(WriteCommand(e_offset, e_i, e_bytes[e_i + 1]), FALSE))
    /\ e_pc' = AfterThrow(e_pc)
    /\ UNCHANGED <<e_op, e_addr, e_offset, e_bytes, e_n, e_i, e_ret,
                   timeVars, devVars, macVars>>

\* the 10 ms sleep ends; i++ and the loop test
WriteSleepDone ==
    /\ e_pc = "sleep"
    /\ e_i' = e_i + 1
    /\ e_pc' = IF e_i + 1 < e_n THEN "write" ELSE "done"
    /\ UNCHANGED <<e_op, e_addr, e_offset, e_bytes, e_n, e_log, e_ret,
                   timeVars, devVars, macVars>>

CallReadEeprom ==
    /\ e_pc = "idle"
    /\ \E addr \in AddrPool, offset \in OffsetPool, num_bytes \in 0..MaxLen :
        /\ e_op' = "read_eeprom"
        /\ e_addr' = addr
        /\ e_offset' = offset
        /\ e_bytes' = <<>>
        /\ e_n' = num_bytes
        /\ e_i' = 0
        /\ e_pc' = IF 0 < num_bytes THEN "setpos" ELSE "done"
        /\ e_ret' = IF 0 < num_bytes THEN NoReturn ELSE [set |-> TRUE, bytes |-> <<>>]
        /\ UNCHANGED <<e_log, timeVars, devVars, macVars>>

\* the write that starts the read cycle completes
SetPosition ==
    /\ e_pc = "setpos"
    /\ e_log' = Append(e_log, WriteEntry(PositionCommand(e_offset, e_i), TRUE))
    /\ e_pc' = "read"
    /\ UNCHANGED <<e_op, e_addr, e_offset, e_bytes, e_n, e_i, e_ret,
                   timeVars, devVars, macVars>>

SetPositionThrows ==
    /\ e_pc = "setpos"
    /\ e_log' = Append(e_log, WriteEntry(PositionCommand(e_offset, e_i), FALSE))
    /\ e_pc' = AfterThrow(e_pc)
    /\ UNCHANGED <<e_op, e_addr, e_offset, e_bytes, e_n, e_i, e_ret,
                   timeVars, devVars, macVars>>

\* read_i2c(addr, 1) completes; push_back, i++, the loop test, and the return
ReadByte ==
    /\ e_pc = "read"
    /\ \E byte \in DataPool :
        /\ e_log' = Append(e_log, ReadEntry(1, <<byte>>, TRUE))
        /\ e_bytes' = Append(e_bytes, byte)
        /\ e_ret' = IF e_i + 1 < e_n THEN e_ret
                    ELSE [set |-> TRUE, bytes |-> Append(e_bytes, byte)]
    /\ e_i' = e_i + 1
    /\ e_pc' = IF e_i + 1 < e_n THEN "setpos" ELSE "done"
    /\ UNCHANGED <<e_op, e_addr, e_offset, e_n, timeVars, devVars, macVars>>

ReadByteThrows ==
    /\ e_pc = "read"
    /\ e_log' = Append(e_log, ReadEntry(1, <<>>, FALSE))
    /\ e_pc' = AfterThrow(e_pc)
    /\ UNCHANGED <<e_op, e_addr, e_offset, e_bytes, e_n, e_i, e_ret,
                   timeVars, devVars, macVars>>

EepNext ==
    \/ CallWriteEeprom
    \/ WriteByte
    \/ WriteByteThrows
    \/ WriteSleepDone
    \/ CallReadEeprom
    \/ SetPosition
    \/ SetPositionThrows
    \/ ReadByte
    \/ ReadByteThrows

SpecEeprom == Init /\ [][EepNext]_vars

(* ---- properties of the EEPROM helpers, under SpecEeprom ---- *)

\* the transactions issued so far are the first ones of write_eeprom's list,
\* whose k-th command (k = 1..n) is <<first[k], bytes[k]>>, and all of them
\* once the call has returned
WritesInOrder(first) ==
    /\ Len(e_log) <= e_n
    /\ \A k \in 1..Len(e_log) :
          /\ e_log[k].kind = "write_i2c"
          /\ e_log[k].addr = e_addr
          /\ e_log[k].data = <<first[k], e_bytes[k]>>
    /\ e_pc = "done" => Len(e_log) = e_n

\* C1 (as stated): write_eeprom issues exactly n write_i2c transactions and
\* no read_i2c, all to addr, in increasing index order, the i-th being the
\* two-byte command (offset + i, bytes[i]).
C1_WritesAtOffsetPlusIndex ==
    e_op = "write_eeprom" =>
        WritesInOrder([k \in 1..e_n |-> e_offset + (k - 1)])

\* C1 (amended): the same, the i-th command being
\* ((offset + i) mod 256, bytes[i]).
C1_WritesAtOffsetPlusIndexMod256 ==
    e_op = "write_eeprom" =>
        WritesInOrder([k \in 1..e_n |-> (e_offset + (k - 1)) % 256])

C1_Witness ==
    /\ e_op = "write_eeprom"
    /\ e_pc = "done"
    /\ e_n = MaxLen
    /\ Len(e_log) = MaxLen
    /\ e_offset + e_n > 256
    /\ \E k \in 1..e_n : e_bytes[k] # e_bytes[1]

\* the transactions issued so far are the first ones of read_eeprom's list:
\* for pair i (i = 0..n-1) a write of the one-byte command <<pos[i]>>, then a
\* read of one byte; once the call has returned all 2n were issued and the
\* result holds the n bytes read, in order
PairsInOrder(pos) ==
    /\ Len(e_log) <= 2 * e_n
    /\ \A k \in 1..Len(e_log) :
          /\ e_log[k].addr = e_addr
          /\ IF k % 2 = 1
                THEN /\ e_log[k].kind = "write_i2c"
                     /\ e_log[k].data = <<pos[(k - 1) \div 2]>>
                ELSE /\ e_log[k].kind = "read_i2c"
                     /\ e_log[k].count = 1
    /\ e_pc = "done" =>
          /\ Len(e_log) = 2 * e_n
          /\ e_ret.set
          /\ Len(e_ret.bytes) = e_n
          /\ \A i \in 0..(e_n - 1) : e_ret.bytes[i + 1] = e_log[2 * i + 2].reply[1]

\* C2 (as stated): read_eeprom issues n write_i2c and n read_i2c transactions
\* to addr, strictly alternating; pair i is the position-setting write for
\* offset + i and a one-byte read; the result has length n and its element i
\* is the byte returned by the i-th read.
C2_PairsAtOffsetPlusIndex ==
    e_op = "read_eeprom" =>
        PairsInOrder([i \in 0..(e_n - 1) |-> e_offset + i])

\* C2 (amended): the same, pair i setting the position (offset + i) mod 256.
C2_PairsAtOffsetPlusIndexMod256 ==
    e_op = "read_eeprom" =>
        PairsInOrder([i \in 0..(e_n - 1) |-> (e_offset + i) % 256])

C2_Witness ==
    /\ e_op = "read_eeprom"
    /\ e_pc = "done"
    /\ e_n = MaxLen
    /\ Len(e_log) = 2 * MaxLen
    /\ e_offset + e_n > 256
    /\ \E i \in 1..e_n : e_ret.bytes[i] # e_ret.bytes[1]

\* C3: if a write_i2c or read_i2c transaction fails, the helper ends in the
\* error outcome, issues no transaction after the failed one, and
\* read_eeprom returns no partial result.
C3_FailureEndsTheCall ==
    /\ \A k \in 1..Len(e_log) :
          ~e_log[k].ok => /\ e_pc = "error"
                          /\ k = Len(e_log)
                          /\ ~e_ret.set
    /\ e_pc = "error" => (e_log # <<>> /\ ~e_log[Len(e_log)].ok)

C3_Witness ==
    /\ e_op = "read_eeprom"
    /\ e_pc = "error"
    /\ e_bytes # <<>>
    /\ Len(e_log) < 2 * e_n
    /\ e_log[Len(e_log)].kind = "read_i2c"
    /\ ~e_ret.set

====
